---- MODULE Spec2Model ----
(***************************************************************************)
(* Model of the backtesting/execution engine of stockagent:                *)
(* BacktestingEngine in src/backtesting.py.                                *)
(*                                                                         *)
(* Numbers.  The engine computes in floating point; the model computes the *)
(* same expressions exactly, in fixed point.  A fraction (slippage,        *)
(* transaction_cost, stop_loss, take_profit) is an integer number of       *)
(* 1/RateDen; a price from the data is a whole number; an execution price  *)
(* (price * (1 +- slippage)) is held in units of 1/RateDen; an amount of   *)
(* money (capital, cost, revenue, fee, portfolio value) is held in units   *)
(* of 1/RateDen^2.                                                         *)
(***************************************************************************)
EXTENDS Integers, Sequences, FiniteSets, TLC

\* ------------------------------------------------------------------ bounds
RateDen == 100          \* a fraction f of the source is f * RateDen here
Money == RateDen * RateDen

InitialCapital == 1000  \* initial_capital handed to the constructor
MaxDates == 2           \* dates a fetched series can hold: 1..MaxDates
MaxSignals == 1         \* most intents a strategy call returns
MaxRuns == 1            \* run_backtest calls on one engine (Spec)
MaxReruns == 2          \* run_backtest calls on one engine (SpecRerun)
MaxSnapshots == 4       \* snapshots of a drawdown computation (SpecDrawdown)
MaxValue == 4           \* highest snapshot value of it (SpecDrawdown)
MaxAllSignals == 3      \* intents the sub-strategies emit together (SpecCombined)
MaxBars == 20           \* bars of a price history (SpecLookAhead)
MaxBatch == 2           \* most intents a strategy call returns (SpecBatch)

Symbols == <<"1579.T", "1360.T">>       \* the symbols list of a run
SymbolSet == {Symbols[n] : n \in 1..Len(Symbols)}
Dates == 1..MaxDates
Prices == {94, 100, 120}                \* Close prices of the fetched data
Quantities == {-5, 0, 5, 10}            \* quantities a strategy may return
Actions == {"BUY", "SELL"}

\* (slippage, transaction_cost, stop_loss, take_profit) of the constructor
Configs ==
    { [slippage |-> 1, transaction_cost |-> 2, stop_loss |-> 5, take_profit |-> 15],
      [slippage |-> 0, transaction_cost |-> 0, stop_loss |-> 5, take_profit |-> 15],
      [slippage |-> 1, transaction_cost |-> 2, stop_loss |-> 0, take_profit |-> 0] }

\* An intent returned by a strategy.  keys = FALSE models a mapping that
\* lacks one of the keys run_backtest reads ('symbol', 'action', 'quantity').
Intents ==
    [symbol : SymbolSet, action : Actions, quantity : Quantities, keys : {TRUE}]
    \cup {[symbol |-> Symbols[1], action |-> "BUY", quantity |-> 5, keys |-> FALSE]}

RECURSIVE SeqsUpTo(_, _)
SeqsUpTo(S, n) ==
    IF n = 0 THEN {<<>>}
    ELSE LET shorter == SeqsUpTo(S, n - 1)
         IN  shorter \cup {Append(q, x) : q \in {r \in shorter : Len(r) = n - 1}, x \in S}

VARIABLES
    self,           \* the BacktestingEngine object (its attributes)
    pc,             \* where run_backtest stands
    runs,           \* run_backtest calls started on this engine
    data,           \* run_backtest: data[symbol][date] = Close
    common_dates,   \* run_backtest: sorted intersection of the date indexes
    bar,            \* run_backtest: index into common_dates of the loop
    current_prices, \* run_backtest: Close of every symbol at the bar
    signals,        \* run_backtest: what the strategy returned for the bar
    risk_signals,   \* run_backtest: what check_risk_management returned
    k,              \* index of the next intent in the list being executed
    result,         \* what run_backtest returned, or the exception it raised
    trade_origin,   \* for each trade record, the loop that executed it
    fresh,          \* a newly constructed engine given the same run (it
                    \* runs its own risk-management loop within CheckRisk)
    call            \* a call of one function on its own: name, arguments,
                    \* returned value

vars == <<self, pc, runs, data, common_dates, bar, current_prices, signals,
          risk_signals, k, result, trade_origin, fresh, call>>

\* ------------------------------------------------------------ __init__
EmptyDict == [s \in {} |-> 0]

Construct(cfg) ==
    [ initial_capital       |-> InitialCapital * Money,
      current_capital       |-> InitialCapital * Money,
      positions             |-> [s \in SymbolSet |-> 0],
      trade_history         |-> <<>>,
      portfolio_values      |-> <<>>,
      transaction_cost      |-> cfg.transaction_cost,
      slippage              |-> cfg.slippage,
      stop_loss             |-> cfg.stop_loss,
      take_profit           |-> cfg.take_profit,
      position_entry_prices |-> EmptyDict ]

\* --------------------------------------------------------- execute_trade
\* the slippage taken in the trader's favour on a SELL
ExecutionPrice_SellAbove(e, action, price) == price * (RateDen + e.slippage)

\* lines 83-86: price * (1 + slippage) for a BUY, price * (1 - slippage) else
ExecutionPrice(e, action, price) ==
    IF action = "BUY" THEN price * (RateDen + e.slippage)
    ELSE price * (RateDen - e.slippage)

DictSet(d, key, val) ==
    [x \in DOMAIN d \cup {key} |-> IF x = key THEN val ELSE d[x]]

\* lines 89-91: gross_cost + transaction_fee of a BUY, in units of 1/RateDen^2
BuyTotalCost(e, quantity, price) ==
    LET gross_cost      == quantity * ExecutionPrice(e, "BUY", price)  \* 1/RateDen
        transaction_fee == gross_cost * e.transaction_cost             \* 1/RateDen^2
    IN  gross_cost * RateDen + transaction_fee

\* lines 94-110: the body of `if total_cost <= self.current_capital`
BuyFill(e, symbol, quantity, price, date) ==
    LET execution_price == ExecutionPrice(e, "BUY", price)
        total_cost      == BuyTotalCost(e, quantity, price)
        positions       == [e.positions EXCEPT ![symbol] = @ + quantity]
    IN  [e EXCEPT
            !.current_capital = @ - total_cost,
            !.positions = positions,
            !.position_entry_prices =
                IF symbol \notin DOMAIN @ \/ positions[symbol] = quantity
                THEN DictSet(@, symbol, execution_price) ELSE @,
            !.trade_history = Append(@,
                [date |-> date, symbol |-> symbol, action |-> "BUY",
                 quantity |-> quantity, price |-> execution_price,
                 cost |-> total_cost,
                 transaction_fee |-> quantity * execution_price * e.transaction_cost,
                 slippage_cost |-> quantity * price * e.slippage * RateDen])]

\* Buy with the fee left out of what is taken from the capital
Buy_FeeNotCharged(e, symbol, quantity, price, date) ==
    IF BuyTotalCost(e, quantity, price) <= e.current_capital
    THEN [BuyFill(e, symbol, quantity, price, date) EXCEPT
            !.current_capital =
                e.current_capital - quantity * ExecutionPrice(e, "BUY", price) * RateDen]
    ELSE e

\* Buy without the check against the capital
Buy_NoCapitalCheck(e, symbol, quantity, price, date) ==
    BuyFill(e, symbol, quantity, price, date)

\* Buy that records the entry price before it looks at the capital
Buy_EntryOnReject(e, symbol, quantity, price, date) ==
    IF BuyTotalCost(e, quantity, price) <= e.current_capital
    THEN BuyFill(e, symbol, quantity, price, date)
    ELSE [e EXCEPT !.position_entry_prices =
                        DictSet(@, symbol, ExecutionPrice(e, "BUY", price))]

\* Buy that checks the cost against the cash the bar started with
Buy_CheckAgainstBarStart(e, symbol, quantity, price, date) ==
    LET at_start == IF e.portfolio_values = <<>> THEN e.initial_capital
                    ELSE e.portfolio_values[Len(e.portfolio_values)].cash
    IN  IF BuyTotalCost(e, quantity, price) <= at_start
        THEN BuyFill(e, symbol, quantity, price, date)
        ELSE e

\* lines 88-110
Buy(e, symbol, quantity, price, date) ==
    IF BuyTotalCost(e, quantity, price) <= e.current_capital
    THEN BuyFill(e, symbol, quantity, price, date)
    ELSE e

\* lines 113-128: the body of `if self.positions[symbol] >= quantity`
SellFill(e, symbol, quantity, price, date) ==
    LET execution_price == ExecutionPrice(e, "SELL", price)
        gross_revenue   == quantity * execution_price          \* 1/RateDen
        transaction_fee == gross_revenue * e.transaction_cost  \* 1/RateDen^2
        net_revenue     == gross_revenue * RateDen - transaction_fee
    IN  [e EXCEPT
            !.current_capital = @ + net_revenue,
            !.positions = [@ EXCEPT ![symbol] = @ - quantity],
            !.trade_history = Append(@,
                [date |-> date, symbol |-> symbol, action |-> "SELL",
                 quantity |-> quantity, price |-> execution_price,
                 revenue |-> net_revenue, transaction_fee |-> transaction_fee,
                 slippage_cost |-> quantity * price * e.slippage * RateDen])]

\* Sell without the check against the position
Sell_NoPositionCheck(e, symbol, quantity, price, date) ==
    SellFill(e, symbol, quantity, price, date)

\* Sell that fills without appending to trade_history
Sell_NoRecord(e, symbol, quantity, price, date) ==
    IF e.positions[symbol] >= quantity
    THEN [SellFill(e, symbol, quantity, price, date) EXCEPT
            !.trade_history = e.trade_history]
    ELSE e

\* lines 111-128
Sell(e, symbol, quantity, price, date) ==
    IF e.positions[symbol] >= quantity
    THEN SellFill(e, symbol, quantity, price, date)
    ELSE e

\* lines 78-128
execute_trade(e, symbol, action, quantity, price, date) ==
    IF action = "BUY" THEN Buy(e, symbol, quantity, price, date)
    ELSE IF action = "SELL" THEN Sell(e, symbol, quantity, price, date)
    ELSE e

\* ------------------------------------------------ calculate_portfolio_value
RECURSIVE SumOver(_, _)
SumOver(S, f) ==
    IF S = {} THEN 0
    ELSE LET x == CHOOSE y \in S : TRUE IN f[x] + SumOver(S \ {x}, f)

\* calculate_portfolio_value that leaves the positions out
calculate_portfolio_value_CashOnly(e, prices) == e.current_capital

\* lines 130-138
calculate_portfolio_value(e, prices) ==
    e.current_capital
    + SumOver(DOMAIN e.positions \cap DOMAIN prices,
              [s \in DOMAIN e.positions \cap DOMAIN prices |->
                    e.positions[s] * prices[s] * Money])

\* -------------------------------------------------- check_risk_management
\* current_return = (current_price - entry_price) / entry_price, compared
\* with -stop_loss and take_profit; entry_price > 0 in every reachable state.
StopLossHit(e, entry_price, current_price) ==
    (current_price * RateDen - entry_price) * RateDen <= -(e.stop_loss * entry_price)

TakeProfitHit(e, entry_price, current_price) ==
    (current_price * RateDen - entry_price) * RateDen >= e.take_profit * entry_price

\* check_risk_management without the test that a position is held
check_risk_management_NoPositionCheck(e, symbol, current_price) ==
    IF symbol \in DOMAIN e.position_entry_prices
    THEN LET entry_price == e.position_entry_prices[symbol]
         IN  IF StopLossHit(e, entry_price, current_price)
             THEN <<[symbol |-> symbol, action |-> "SELL",
                     quantity |-> e.positions[symbol], reason |-> "stop-loss"]>>
             ELSE IF TakeProfitHit(e, entry_price, current_price)
             THEN <<[symbol |-> symbol, action |-> "SELL",
                     quantity |-> e.positions[symbol], reason |-> "take-profit"]>>
             ELSE <<>>
    ELSE <<>>

\* lines 140-168
check_risk_management(e, symbol, current_price) ==
    IF /\ symbol \in DOMAIN e.positions
       /\ e.positions[symbol] > 0
       /\ symbol \in DOMAIN e.position_entry_prices
    THEN LET entry_price == e.position_entry_prices[symbol]
         IN  IF StopLossHit(e, entry_price, current_price)
             THEN <<[symbol |-> symbol, action |-> "SELL",
                     quantity |-> e.positions[symbol], reason |-> "stop-loss"]>>
             ELSE IF TakeProfitHit(e, entry_price, current_price)
             THEN <<[symbol |-> symbol, action |-> "SELL",
                     quantity |-> e.positions[symbol], reason |-> "take-profit"]>>
             ELSE <<>>
    ELSE <<>>

\* ------------------------------------------------------------ run_backtest
\* get_historical_data: one date-indexed series per symbol, any subset of
\* Dates, any Close from Prices.
Series == UNION {[D -> Prices] : D \in SUBSET Dates}
DataSets == [SymbolSet -> Series]

\* the dates from the latest to the earliest
SortedList_Descending(S) ==
    CHOOSE f \in [1..Cardinality(S) -> S] : \A i, j \in 1..Cardinality(S) : i < j => f[i] > f[j]

\* line 188: sorted(list(common_dates))
SortedList(S) ==
    CHOOSE f \in [1..Cardinality(S) -> S] : \A i, j \in 1..Cardinality(S) : i < j => f[i] < f[j]

\* CommonDates that loses the latest common date
CommonDates_DropLast(d) ==
    LET common == {t \in Dates : \A s \in SymbolSet : t \in DOMAIN d[s]}
    IN  SortedList({t \in common : \E u \in common : u > t})

\* set.intersection(*[set(df.index) for df in data.values()]), sorted
CommonDates(d) == SortedList({t \in Dates : \A s \in SymbolSet : t \in DOMAIN d[s]})

\* lines 190-194: what run_backtest resets (position_entry_prices is not in it)
ResetTracking(e) ==
    [e EXCEPT !.current_capital = e.initial_capital,
              !.positions = [s \in SymbolSet |-> 0],
              !.trade_history = <<>>,
              !.portfolio_values = <<>>]

ConfigOf(e) ==
    [slippage |-> e.slippage, transaction_cost |-> e.transaction_cost,
     stop_loss |-> e.stop_loss, take_profit |-> e.take_profit]

RECURSIVE RiskSignalsFrom(_, _, _)
RiskSignalsFrom(e, prices, n) ==
    IF n > Len(Symbols) THEN <<>>
    ELSE check_risk_management(e, Symbols[n], prices[Symbols[n]])
         \o RiskSignalsFrom(e, prices, n + 1)

\* lines 205-207
RiskSignals(e, prices) == RiskSignalsFrom(e, prices, 1)

\* lines 210-217 and 220-227: one pass of the loop body
ExecuteSignal(e, signal, prices, date) ==
    execute_trade(e, signal.symbol, signal.action, signal.quantity,
                  prices[signal.symbol], date)

RECURSIVE ExecuteAll(_, _, _, _)
ExecuteAll(e, sigs, prices, date) ==
    IF sigs = <<>> THEN e
    ELSE ExecuteAll(ExecuteSignal(e, Head(sigs), prices, date), Tail(sigs), prices, date)

\* lines 230-236
TakeSnapshot(e, prices, date) ==
    [e EXCEPT !.portfolio_values = Append(@,
        [date |-> date,
         portfolio_value |-> calculate_portfolio_value(e, prices),
         cash |-> e.current_capital,
         positions |-> e.positions])]

CurrentDate == common_dates[bar]

NoResult == [status |-> "none"]

NoCall == [fn |-> "none"]

\* the two loops in the other order: strategy intents, then risk management
PhaseAfter_StrategyFirst(phase, risk_sigs, sigs) ==
    IF phase = "risk" /\ sigs # <<>> THEN "exec_signals"
    ELSE IF phase \in {"risk", "exec_signals"} /\ risk_sigs # <<>> THEN "exec_risk"
    ELSE "snapshot"

\* The order of the bar's loops: lines 210-217 (risk-management intents), then
\* lines 220-227 (strategy intents), then the snapshot of lines 229-236.  A
\* loop over an empty list is passed over.
PhaseAfter(phase, risk_sigs, sigs) ==
    IF phase = "risk" /\ risk_sigs # <<>> THEN "exec_risk"
    ELSE IF phase \in {"risk", "exec_risk"} /\ sigs # <<>> THEN "exec_signals"
    ELSE "snapshot"

Constructed ==
    /\ self \in {Construct(cfg) : cfg \in Configs}
    /\ fresh = self
    /\ pc = "idle"
    /\ runs = 0
    /\ data = [s \in SymbolSet |-> EmptyDict]
    /\ common_dates = <<>>
    /\ bar = 1
    /\ current_prices = EmptyDict
    /\ signals = <<>>
    /\ risk_signals = <<>>
    /\ k = 1
    /\ result = NoResult
    /\ trade_origin = <<>>

Init == Constructed /\ call = NoCall

\* lines 179-194: fetch, align, reset
StartRun(limit, datasets) ==
    /\ pc \in {"idle", "done", "failed"}
    /\ runs < limit
    /\ runs' = runs + 1
    /\ data' \in datasets
    /\ common_dates' = CommonDates(data')
    /\ self' = ResetTracking(self)
    /\ fresh' = ResetTracking(Construct(ConfigOf(self)))
    /\ trade_origin' = <<>>
    /\ bar' = 1
    /\ current_prices' = EmptyDict
    /\ signals' = <<>>
    /\ risk_signals' = <<>>
    /\ k' = 1
    /\ result' = NoResult
    /\ pc' = IF common_dates' = <<>> THEN "finish" ELSE "bar"
    /\ UNCHANGED call

\* lines 197-202: the bar's prices, then the strategy is called
CallStrategy(intents) ==
    /\ pc = "bar"
    /\ current_prices' = [s \in SymbolSet |-> data[s][CurrentDate]]
    /\ signals' \in SeqsUpTo(intents, MaxSignals)
    /\ pc' = "risk"
    /\ UNCHANGED <<call, self, runs, data, common_dates, bar, risk_signals, k, result,
                   trade_origin, fresh>>

\* lines 204-207: the risk checks of all symbols, on the state the bar starts in
CheckRisk ==
    /\ pc = "risk"
    /\ risk_signals' = RiskSignals(self, current_prices)
    /\ k' = 1
    /\ pc' = PhaseAfter("risk", risk_signals', signals)
    /\ fresh' = ExecuteAll(fresh, RiskSignals(fresh, current_prices),
                           current_prices, CurrentDate)
    /\ UNCHANGED <<call, self, runs, data, common_dates, bar, current_prices, signals,
                   result, trade_origin>>

\* lines 210-217: one risk-management intent
ExecRisk ==
    /\ pc = "exec_risk"
    /\ self' = ExecuteSignal(self, risk_signals[k], current_prices, CurrentDate)
    /\ trade_origin' = IF Len(self'.trade_history) > Len(self.trade_history)
                       THEN Append(trade_origin, "risk") ELSE trade_origin
    /\ IF k < Len(risk_signals)
       THEN k' = k + 1 /\ pc' = pc
       ELSE k' = 1 /\ pc' = PhaseAfter("exec_risk", risk_signals, signals)
    /\ UNCHANGED <<call, runs, data, common_dates, bar, current_prices, signals,
                   risk_signals, result, fresh>>

\* lines 220-227: one strategy intent
ExecSignal ==
    /\ pc = "exec_signals"
    /\ signals[k].keys
    /\ self' = ExecuteSignal(self, signals[k], current_prices, CurrentDate)
    /\ fresh' = ExecuteSignal(fresh, signals[k], current_prices, CurrentDate)
    /\ trade_origin' = IF Len(self'.trade_history) > Len(self.trade_history)
                       THEN Append(trade_origin, "strategy") ELSE trade_origin
    /\ IF k < Len(signals)
       THEN k' = k + 1 /\ pc' = pc
       ELSE k' = 1 /\ pc' = PhaseAfter("exec_signals", risk_signals, signals)
    /\ UNCHANGED <<call, runs, data, common_dates, bar, current_prices, signals,
                   risk_signals, result>>

\* lines 222-225: signal['symbol'] / ['action'] / ['quantity'] of a mapping
\* without that key raises KeyError, which run_backtest does not catch
SignalKeyError ==
    /\ pc = "exec_signals"
    /\ ~signals[k].keys
    /\ result' = [status |-> "raised", error |-> "KeyError"]
    /\ pc' = "failed"
    /\ UNCHANGED <<call, self, runs, data, common_dates, bar, current_prices, signals,
                   risk_signals, k, trade_origin, fresh>>

\* lines 229-236, and the loop header of line 197
Snapshot ==
    /\ pc = "snapshot"
    /\ self' = TakeSnapshot(self, current_prices, CurrentDate)
    /\ fresh' = TakeSnapshot(fresh, current_prices, CurrentDate)
    /\ bar' = bar + 1
    /\ pc' = IF bar < Len(common_dates) THEN "bar" ELSE "finish"
    /\ UNCHANGED <<call, runs, data, common_dates, current_prices, signals,
                   risk_signals, k, result, trade_origin>>

\* a / b < c / d for a, c >= 0 and b, d > 0, by the integer parts and then the
\* inverted remainders: what `<` decides on the two quotients
RECURSIVE QuotientLess(_, _, _, _)
QuotientLess(a, b, c, d) ==
    IF a \div b # c \div d THEN a \div b < c \div d
    ELSE IF c % d = 0 THEN FALSE
    ELSE IF a % b = 0 THEN TRUE
    ELSE QuotientLess(d, c % d, b, a % b)

\* lines 246-251: the loop over portfolio_values from index n on.  A
\* percentage is the quotient num / den; peaks lists `peak` as each pass of
\* the loop used it.
RECURSIVE DrawdownLoop(_, _, _, _, _)
DrawdownLoop(portfolio_values, n, peak, max_drawdown, peaks) ==
    IF n > Len(portfolio_values)
    THEN [max_drawdown |-> max_drawdown, peaks |-> peaks]
    ELSE LET value    == portfolio_values[n]
             new_peak == IF value > peak THEN value ELSE peak
             drawdown == [num |-> (new_peak - value) * 100, den |-> new_peak]
         IN  DrawdownLoop(portfolio_values, n + 1, new_peak,
                 IF QuotientLess(max_drawdown.num, max_drawdown.den,
                                 drawdown.num, drawdown.den)
                 THEN drawdown ELSE max_drawdown,
                 Append(peaks, new_peak))

\* the drawdown loop with `peak` left at the first snapshot's value
MaxDrawdown_PeakFixed(portfolio_values) ==
    LET peak == portfolio_values[1]
        worst == CHOOSE n \in 1..Len(portfolio_values) :
                    \A m \in 1..Len(portfolio_values) :
                        portfolio_values[m] >= portfolio_values[n]
        low == IF portfolio_values[worst] < peak THEN portfolio_values[worst] ELSE peak
    IN  [max_drawdown |-> [num |-> (peak - low) * 100, den |-> peak],
         peaks |-> [n \in 1..Len(portfolio_values) |-> peak]]

\* lines 243-251: peak = portfolio_values[0], max_drawdown = 0, then the loop
MaxDrawdown(portfolio_values) ==
    DrawdownLoop(portfolio_values, 1, portfolio_values[1], [num |-> 0, den |-> 1], <<>>)

\* line 243
ValuesOf(snapshots) == [n \in 1..Len(snapshots) |-> snapshots[n].portfolio_value]

\* lines 238-261 when the loop appended a snapshot
Finish ==
    /\ pc = "finish"
    /\ self.portfolio_values # <<>>
    /\ LET final_value == self.portfolio_values[Len(self.portfolio_values)].portfolio_value
       IN  result' = [status |-> "returned",
                      initial_capital |-> self.initial_capital,
                      final_value |-> final_value,
                      total_return |->
                          [num |-> (final_value - self.initial_capital) * 100,
                           den |-> self.initial_capital],
                      max_drawdown |->
                          MaxDrawdown(ValuesOf(self.portfolio_values)).max_drawdown,
                      total_trades |-> Len(self.trade_history)]
    /\ pc' = "done"
    /\ UNCHANGED <<call, self, runs, data, common_dates, bar, current_prices, signals,
                   risk_signals, k, trade_origin, fresh>>

\* line 239 when the loop ran no bar: self.portfolio_values[-1] of an empty
\* list raises IndexError
FinishIndexError ==
    /\ pc = "finish"
    /\ self.portfolio_values = <<>>
    /\ result' = [status |-> "raised", error |-> "IndexError"]
    /\ pc' = "failed"
    /\ UNCHANGED <<call, self, runs, data, common_dates, bar, current_prices, signals,
                   risk_signals, k, trade_origin, fresh>>

Next ==
    \/ StartRun(MaxRuns, DataSets)
    \/ CallStrategy(Intents)
    \/ CheckRisk
    \/ ExecRisk
    \/ ExecSignal
    \/ SignalKeyError
    \/ Snapshot
    \/ Finish
    \/ FinishIndexError

Spec == Init /\ [][Next]_vars

\* One engine used for MaxReruns runs in a row, as test_streamlit_integration
\* does; every series full or empty, intents for the first symbol.
RerunDataSets == {d \in DataSets : \A s \in SymbolSet : DOMAIN d[s] \in {{}, Dates}}
RerunIntents == {i \in Intents : i.symbol = Symbols[1]}

NextRerun ==
    \/ StartRun(MaxReruns, RerunDataSets)
    \/ CallStrategy(RerunIntents)
    \/ CheckRisk
    \/ ExecRisk
    \/ ExecSignal
    \/ SignalKeyError
    \/ Snapshot
    \/ Finish
    \/ FinishIndexError

InitRerun == Init /\ self.stop_loss > 0 /\ self.slippage > 0

SpecRerun == InitRerun /\ [][NextRerun]_vars

\* A run whose strategy returns well-formed quantities only: every intent's
\* quantity is positive, as int(budget / price) is for a price below the budget.
PositiveIntents == {i \in Intents : i.quantity > 0}

NextPositive ==
    \/ StartRun(MaxRuns, DataSets)
    \/ CallStrategy(PositiveIntents)
    \/ CheckRisk
    \/ ExecRisk
    \/ ExecSignal
    \/ SignalKeyError
    \/ Snapshot
    \/ Finish
    \/ FinishIndexError

SpecPositive == Init /\ [][NextPositive]_vars

\* A run whose strategy returns up to MaxBatch well-formed intents per bar, on
\* series that have every date.
BatchIntents == {i \in PositiveIntents : i.keys}

BatchDataSets ==
    {d \in DataSets : \A s \in SymbolSet :
        DOMAIN d[s] = Dates /\ \A t \in Dates : d[s][t] \in {100, 120}}

\* lines 197-202 with a strategy that returns one of `batches`
CallStrategyBatch(batches) ==
    /\ pc = "bar"
    /\ current_prices' = [s \in SymbolSet |-> data[s][CurrentDate]]
    /\ signals' \in batches
    /\ pc' = "risk"
    /\ UNCHANGED <<call, self, runs, data, common_dates, bar, risk_signals, k, result,
                   trade_origin, fresh>>

NextBatch ==
    \/ StartRun(MaxRuns, BatchDataSets)
    \/ CallStrategyBatch(SeqsUpTo(BatchIntents, MaxBatch))
    \/ CheckRisk
    \/ ExecRisk
    \/ ExecSignal
    \/ Snapshot
    \/ Finish

InitBatch == Init /\ self.stop_loss > 0

SpecBatch == InitBatch /\ [][NextBatch]_vars

\* ------------------------------------------------------ combined_strategy
\* the sub-strategies combined_strategy calls, in the order of line 314; an
\* intent's reason tells which of them emitted it
SubStrategies == <<"mean_reversion", "momentum", "pairs_trading", "trend_following">>

CombinedQuantities == {50, 80}

SubIntents ==
    [symbol : SymbolSet, action : Actions, quantity : CombinedQuantities,
     reason : {SubStrategies[n] : n \in 1..Len(SubStrategies)}]

RankOf(reason) == CHOOSE n \in 1..Len(SubStrategies) : SubStrategies[n] = reason

\* lines 317-322: the keys of signal_groups in the order of their insertion
RECURSIVE GroupKeys(_, _)
GroupKeys(all_signals, keys) ==
    IF all_signals = <<>> THEN keys
    ELSE LET key == <<Head(all_signals).symbol, Head(all_signals).action>>
         IN  GroupKeys(Tail(all_signals),
                       IF \E n \in 1..Len(keys) : keys[n] = key
                       THEN keys ELSE Append(keys, key))

\* max that returns the last of the items of highest quantity
RECURSIVE MaxByQuantity_LastOnTies(_, _)
MaxByQuantity_LastOnTies(signal_list, best) ==
    IF signal_list = <<>> THEN best
    ELSE MaxByQuantity_LastOnTies(Tail(signal_list),
             IF Head(signal_list).quantity >= best.quantity
             THEN Head(signal_list) ELSE best)

\* line 326: max(signal_list, key=lambda x: x['quantity']) scanning from
\* `best`: a later item replaces it only when its quantity is greater
RECURSIVE MaxByQuantity(_, _)
MaxByQuantity(signal_list, best) ==
    IF signal_list = <<>> THEN best
    ELSE MaxByQuantity(Tail(signal_list),
             IF Head(signal_list).quantity > best.quantity
             THEN Head(signal_list) ELSE best)

\* lines 299-329, given what the four sub-strategies returned
combined_strategy(mean_rev_signals, momentum_signals, pairs_signals, trend_signals) ==
    LET all_signals == mean_rev_signals \o momentum_signals \o pairs_signals \o trend_signals
        keys == GroupKeys(all_signals, <<>>)
        signal_list(key) ==
            SelectSeq(all_signals, LAMBDA signal : <<signal.symbol, signal.action>> = key)
    IN  [n \in 1..Len(keys) |->
            MaxByQuantity(Tail(signal_list(keys[n])), Head(signal_list(keys[n])))]

\* what the sub-strategies can return together: up to MaxAllSignals intents,
\* each sub-strategy's list in turn
EmittedLists ==
    {q \in SeqsUpTo(SubIntents, MaxAllSignals) :
        \A i, j \in 1..Len(q) : i < j => RankOf(q[i].reason) <= RankOf(q[j].reason)}

EmittedBy(q, reason) == SelectSeq(q, LAMBDA signal : signal.reason = reason)

InitCombined ==
    /\ Constructed
    /\ self.stop_loss > 0 /\ self.slippage > 0
    /\ call \in {[fn |-> "combined_strategy", returned |-> FALSE,
                  mean_rev_signals |-> EmittedBy(q, SubStrategies[1]),
                  momentum_signals |-> EmittedBy(q, SubStrategies[2]),
                  pairs_signals |-> EmittedBy(q, SubStrategies[3]),
                  trend_signals |-> EmittedBy(q, SubStrategies[4])] : q \in EmittedLists}

ApplyCombinedStrategy ==
    /\ call.fn = "combined_strategy"
    /\ ~call.returned
    /\ call' = [fn |-> "combined_strategy", returned |-> TRUE,
                mean_rev_signals |-> call.mean_rev_signals,
                momentum_signals |-> call.momentum_signals,
                pairs_signals |-> call.pairs_signals,
                trend_signals |-> call.trend_signals,
                signals |-> combined_strategy(call.mean_rev_signals, call.momentum_signals,
                                              call.pairs_signals, call.trend_signals)]
    /\ UNCHANGED <<self, pc, runs, data, common_dates, bar, current_prices, signals,
                   risk_signals, k, result, trade_origin, fresh>>

NextCombined == ApplyCombinedStrategy

SpecCombined == InitCombined /\ [][NextCombined]_vars

\* ------------------------------------------ indicators and their one reader
\* calculate_technical_indicators: the SMA_20 and BB_Middle columns and the
\* NaN handling of line 74.  A rolling mean is kept as the window's sum: the
\* mean is num / SmaWindow.
SmaWindow == 20

NaN == [nan |-> TRUE, num |-> 0]

Number(x) == [nan |-> FALSE, num |-> x]

\* Series.rolling(window).mean() from index n on: NaN until the window is full
RECURSIVE RollingFrom(_, _, _, _)
RollingFrom(values, window, n, column) ==
    IF n > Len(values) THEN column
    ELSE RollingFrom(values, window, n + 1,
             Append(column,
                    IF n < window THEN NaN
                    ELSE Number(SumOver((n - window + 1)..n, values))))

Rolling(values, window) == RollingFrom(values, window, 1, <<>>)

\* ffill from index n on: a NaN takes the last value before it, if there is one
RECURSIVE FFillFrom(_, _, _, _)
FFillFrom(column, n, last, filled) ==
    IF n > Len(column) THEN filled
    ELSE LET value == IF column[n].nan THEN last ELSE column[n]
         IN  FFillFrom(column, n + 1, value, Append(filled, value))

FFill(column) == FFillFrom(column, 1, NaN, <<>>)

\* bfill from index n down: a NaN takes the first value after it, if there is one
RECURSIVE BFillFrom(_, _, _, _)
BFillFrom(column, n, next, filled) ==
    IF n < 1 THEN filled
    ELSE LET value == IF column[n].nan THEN next ELSE column[n]
         IN  BFillFrom(column, n - 1, value, <<value>> \o filled)

BFill(column) == BFillFrom(column, Len(column), NaN, <<>>)

\* lines 41-76
calculate_technical_indicators(df) ==
    LET close  == [n \in 1..Len(df) |-> df[n].Close]
        sma_20 == BFill(FFill(Rolling(close, SmaWindow)))
    IN  [n \in 1..Len(df) |->
            [High |-> df[n].High, Low |-> df[n].Low, Close |-> df[n].Close,
             SMA_20 |-> sma_20[n], BB_Middle |-> sma_20[n]]]

AtrPeriod == 14

BreakoutMultiplier == 2

BreakoutBudget == 150000

Abs(x) == IF x < 0 THEN -x ELSE x

Maximum(x, y) == IF x > y THEN x ELSE y

\* lines 258-296 of volatility_breakout_strategy for one symbol's rows.  The
\* ATR is kept as the window's sum (atr = atr_sum / AtrPeriod), so the band
\* tests are multiplied through by SmaWindow * AtrPeriod.
volatility_breakout_strategy(symbol, df, price) ==
    IF Len(df) < AtrPeriod + 1 THEN <<>>
    ELSE LET last == Len(df)
             true_range ==
                 [n \in 2..last |->
                     Maximum(df[n].High - df[n].Low,
                             Maximum(Abs(df[n].High - df[n - 1].Close),
                                     Abs(df[n].Low - df[n - 1].Close)))]
             atr_sum == SumOver((last - AtrPeriod + 1)..last, true_range)
             sma_20  == df[last].SMA_20
             scaled  == price * SmaWindow * AtrPeriod
             middle  == sma_20.num * AtrPeriod
             width   == BreakoutMultiplier * atr_sum * SmaWindow
             intent(action) ==
                 <<[symbol |-> symbol, action |-> action,
                    quantity |-> BreakoutBudget \div price]>>
         IN  IF sma_20.nan THEN <<>>
             ELSE IF scaled > middle + width THEN intent("BUY")
             ELSE IF scaled < middle - width THEN intent("SELL")
             ELSE <<>>

\* run_backtest lines 184 and 198-202 for one symbol with
\* volatility_breakout_strategy as trading_algorithm: the intents of bar t
StrategyAtBar(symbol, history, t) ==
    LET indicators   == calculate_technical_indicators(history)
        current_data == SubSeq(indicators, 1, t)
    IN  volatility_breakout_strategy(symbol, current_data, indicators[t].Close)

\* a price history: bars with High = Low = Close, at one level up to a bar
\* and at another from it on
FlatBar(price) == [High |-> price, Low |-> price, Close |-> price]

HistoryPrices == {p \in Prices : p >= 100}     \* two levels are enough to move a mean

Histories ==
    {[n \in 1..MaxBars |-> FlatBar(IF n < change THEN before ELSE after)] :
        before \in HistoryPrices, after \in HistoryPrices, change \in 1..MaxBars}

\* two histories that start alike
HistoryPairs == {pair \in Histories \X Histories : pair[1][1] = pair[2][1]}

\* two histories are handed to the function side by side
InitLookAhead ==
    /\ Constructed
    /\ self.stop_loss > 0 /\ self.slippage > 0
    /\ \/ call \in {[fn |-> "calculate_technical_indicators", returned |-> FALSE,
                     df |-> pair[1], twin_df |-> pair[2]] : pair \in HistoryPairs}
       \/ call \in {[fn |-> "strategy_at_bar", returned |-> FALSE,
                     df |-> pair[1], twin_df |-> pair[2], t |-> t] :
                        pair \in HistoryPairs, t \in (AtrPeriod + 1)..MaxBars}

ApplyIndicators ==
    /\ call.fn = "calculate_technical_indicators"
    /\ ~call.returned
    /\ call' = [fn |-> call.fn, returned |-> TRUE,
                df |-> call.df, twin_df |-> call.twin_df,
                indicators |-> calculate_technical_indicators(call.df),
                twin_indicators |-> calculate_technical_indicators(call.twin_df)]
    /\ UNCHANGED <<self, pc, runs, data, common_dates, bar, current_prices, signals,
                   risk_signals, k, result, trade_origin, fresh>>

ApplyStrategyAtBar ==
    /\ call.fn = "strategy_at_bar"
    /\ ~call.returned
    /\ call' = [fn |-> call.fn, returned |-> TRUE,
                df |-> call.df, twin_df |-> call.twin_df, t |-> call.t,
                signals |-> StrategyAtBar(Symbols[1], call.df, call.t),
                twin_signals |-> StrategyAtBar(Symbols[1], call.twin_df, call.t)]
    /\ UNCHANGED <<self, pc, runs, data, common_dates, bar, current_prices, signals,
                   risk_signals, k, result, trade_origin, fresh>>

NextLookAhead ==
    \/ ApplyIndicators
    \/ ApplyStrategyAtBar

SpecLookAhead == InitLookAhead /\ [][NextLookAhead]_vars

\* ------------------------------------------------- the strategy registry
\* The strategies of trading_algorithms.py as callables of (data,
\* current_prices).  A DataFrame is known here by its number of rows; what
\* its indicator columns say on the last row is an input of the call: one
\* verdict per symbol for the RSI, Bollinger, MACD, volume and crossover
\* tests, and the rolling correlation and z-score of the pair in units of
\* 1/RateDen (or NaN).
MinRows == 50

LongWindow == 30

CorrelationThreshold == 70

ZScoreThreshold == 200

MeanReversionBudget == 100000

MomentumBudget == 150000

VolumeBudget == 100000

PairsBudget == 100000

TrendBudget == 200000

Verdicts == {"buy", "sell", "none"}

\* line 332-339: the names of the STRATEGIES registry
StrategyNames ==
    {"mean_reversion", "momentum", "pairs_trading", "trend_following",
     "volatility_breakout", "combined"}

\* int(budget / current_prices[symbol]) in an intent
Intent(symbol, action, budget, prices) ==
    [symbol |-> symbol, action |-> action, quantity |-> budget \div prices[symbol]]

\* for symbol, df in data.items(): the lists body[symbol] of the symbols of
\* data, one after the other in the order of the dict
RECURSIVE ForEachSymbol(_, _, _)
ForEachSymbol(body, n, out) ==
    IF n > Len(Symbols) THEN out
    ELSE ForEachSymbol(body, n + 1,
             IF Symbols[n] \in DOMAIN body THEN out \o body[Symbols[n]] ELSE out)

\* lines 12-68; both tests of a symbol follow its verdict
mean_reversion_strategy(rows, prices, verdict) ==
    LET body == [symbol \in DOMAIN rows |->
            IF rows[symbol] < MinRows THEN <<>>
            ELSE IF verdict[symbol] = "buy"
                 THEN <<Intent(symbol, "BUY", MeanReversionBudget, prices),
                        Intent(symbol, "BUY", MeanReversionBudget, prices)>>
            ELSE IF verdict[symbol] = "sell"
                 THEN <<Intent(symbol, "SELL", MeanReversionBudget, prices),
                        Intent(symbol, "SELL", MeanReversionBudget, prices)>>
            ELSE <<>>]
    IN  ForEachSymbol(body, 1, <<>>)

\* lines 71-126; the MACD test and the volume test of a symbol follow its verdict
momentum_strategy(rows, prices, verdict) ==
    LET body == [symbol \in DOMAIN rows |->
            IF rows[symbol] < MinRows THEN <<>>
            ELSE IF verdict[symbol] = "buy"
                 THEN <<Intent(symbol, "BUY", MomentumBudget, prices),
                        Intent(symbol, "BUY", VolumeBudget, prices)>>
            ELSE IF verdict[symbol] = "sell"
                 THEN <<Intent(symbol, "SELL", MomentumBudget, prices),
                        Intent(symbol, "SELL", VolumeBudget, prices)>>
            ELSE <<>>]
    IN  ForEachSymbol(body, 1, <<>>)

\* pairs_trading_strategy selling the numerator on either side of the ratio
pairs_trading_strategy_SameSides(rows, prices, current_corr, z_score) ==
    IF Symbols[1] \notin DOMAIN rows \/ Symbols[2] \notin DOMAIN rows THEN <<>>
    ELSE IF rows[Symbols[1]] < MinRows \/ rows[Symbols[2]] < MinRows THEN <<>>
    ELSE IF ~current_corr.nan /\ Abs(current_corr.num) > CorrelationThreshold
         THEN IF ~z_score.nan /\ Abs(z_score.num) > ZScoreThreshold
              THEN <<Intent(Symbols[1], "SELL", PairsBudget, prices),
                     Intent(Symbols[2], "BUY", PairsBudget, prices)>>
              ELSE <<>>
    ELSE <<>>

\* lines 129-200; a comparison with NaN is false
pairs_trading_strategy(rows, prices, current_corr, z_score) ==
    IF Symbols[1] \notin DOMAIN rows \/ Symbols[2] \notin DOMAIN rows THEN <<>>
    ELSE IF rows[Symbols[1]] < MinRows \/ rows[Symbols[2]] < MinRows THEN <<>>
    ELSE IF ~current_corr.nan /\ Abs(current_corr.num) > CorrelationThreshold
         THEN IF ~z_score.nan /\ z_score.num > ZScoreThreshold
              THEN <<Intent(Symbols[1], "SELL", PairsBudget, prices),
                     Intent(Symbols[2], "BUY", PairsBudget, prices)>>
              ELSE IF ~z_score.nan /\ z_score.num < -ZScoreThreshold
              THEN <<Intent(Symbols[1], "BUY", PairsBudget, prices),
                     Intent(Symbols[2], "SELL", PairsBudget, prices)>>
              ELSE <<>>
    ELSE <<>>

\* trend_following_strategy without the guard of line 213
trend_following_strategy_NoGuard(rows, prices, verdict) ==
    LET body == [symbol \in DOMAIN rows |->
            IF verdict[symbol] = "buy"
            THEN <<Intent(symbol, "BUY", TrendBudget, prices)>>
            ELSE IF verdict[symbol] = "sell"
            THEN <<Intent(symbol, "SELL", TrendBudget, prices)>>
            ELSE <<>>]
    IN  ForEachSymbol(body, 1, <<>>)

\* lines 203-246; the verdict is the golden or death cross of the last two rows
trend_following_strategy(rows, prices, verdict) ==
    LET body == [symbol \in DOMAIN rows |->
            IF rows[symbol] < LongWindow THEN <<>>
            ELSE IF verdict[symbol] = "buy"
                 THEN <<Intent(symbol, "BUY", TrendBudget, prices)>>
            ELSE IF verdict[symbol] = "sell"
                 THEN <<Intent(symbol, "SELL", TrendBudget, prices)>>
            ELSE <<>>]
    IN  ForEachSymbol(body, 1, <<>>)

\* the rows of a history of one price level, with their indicator columns
IndicatorRows(n) ==
    LET level == CHOOSE p \in HistoryPrices : \A q \in HistoryPrices : p <= q
    IN  calculate_technical_indicators([m \in 1..n |-> FlatBar(level)])

\* lines 249-296 over the symbols of data
volatility_breakout(rows, prices) ==
    LET body == [symbol \in DOMAIN rows |->
            volatility_breakout_strategy(symbol, IndicatorRows(rows[symbol]), prices[symbol])]
    IN  ForEachSymbol(body, 1, <<>>)

\* lines 332-339: STRATEGIES[name](data, current_prices)
STRATEGIES(name, rows, prices, verdict, current_corr, z_score) ==
    CASE name = "mean_reversion"      -> mean_reversion_strategy(rows, prices, verdict)
      [] name = "momentum"            -> momentum_strategy(rows, prices, verdict)
      [] name = "pairs_trading"       ->
             pairs_trading_strategy(rows, prices, current_corr, z_score)
      [] name = "trend_following"     -> trend_following_strategy(rows, prices, verdict)
      [] name = "volatility_breakout" -> volatility_breakout(rows, prices)
      [] name = "combined"            ->
             combined_strategy(mean_reversion_strategy(rows, prices, verdict),
                               momentum_strategy(rows, prices, verdict),
                               pairs_trading_strategy(rows, prices, current_corr, z_score),
                               trend_following_strategy(rows, prices, verdict))

\* the lengths on both sides of every guard, and the shortest histories
RowCounts ==
    {0, 1, AtrPeriod, AtrPeriod + 1, LongWindow - 1, LongWindow, MinRows - 1, MinRows}

\* data: the DataFrames of some of the symbols
RowMaps == UNION {[S -> RowCounts] : S \in SUBSET SymbolSet}

\* values of a statistic on both sides of +threshold and -threshold, and NaN
Around(threshold) ==
    {NaN} \cup {Number(x) : x \in {-threshold - 1, -threshold, 0, threshold, threshold + 1}}

ReadsVerdict(name) == name \in {"mean_reversion", "momentum", "trend_following", "combined"}

ReadsPair(name) == name \in {"pairs_trading", "combined"}

StrategyCalls ==
    {c \in [fn : {"strategy"}, returned : {FALSE}, name : StrategyNames,
            rows : RowMaps, prices : [SymbolSet -> HistoryPrices],
            verdict : [SymbolSet -> Verdicts],
            current_corr : Around(CorrelationThreshold),
            z_score : Around(ZScoreThreshold)] :
        /\ ReadsVerdict(c.name) \/ \A s \in SymbolSet : c.verdict[s] = "none"
        /\ ReadsPair(c.name) \/ (c.current_corr = NaN /\ c.z_score = NaN)
        /\ c.name = "combined" => c.verdict[Symbols[1]] = c.verdict[Symbols[2]]}

InitStrategies ==
    /\ Constructed
    /\ self.stop_loss > 0 /\ self.slippage > 0
    /\ call \in StrategyCalls

ApplyStrategy ==
    /\ call.fn = "strategy"
    /\ ~call.returned
    /\ call' = [fn |-> call.fn, returned |-> TRUE, name |-> call.name,
                rows |-> call.rows, prices |-> call.prices, verdict |-> call.verdict,
                current_corr |-> call.current_corr, z_score |-> call.z_score,
                signals |-> STRATEGIES(call.name, call.rows, call.prices, call.verdict,
                                       call.current_corr, call.z_score)]
    /\ UNCHANGED <<self, pc, runs, data, common_dates, bar, current_prices, signals,
                   risk_signals, k, result, trade_origin, fresh>>

NextStrategies == ApplyStrategy

SpecStrategies == InitStrategies /\ [][NextStrategies]_vars

\* ------------------------------------------- the drawdown loop on its own
\* lines 242-251 applied to any sequence of positive snapshot values
DrawdownInputs == SeqsUpTo(1..MaxValue, MaxSnapshots) \ {<<>>}

InitDrawdown ==
    /\ Constructed
    /\ self.stop_loss > 0 /\ self.slippage > 0
    /\ call \in {[fn |-> "max_drawdown", returned |-> FALSE, portfolio_values |-> v]
                    : v \in DrawdownInputs}

ApplyMaxDrawdown ==
    /\ call.fn = "max_drawdown"
    /\ ~call.returned
    /\ LET r == MaxDrawdown(call.portfolio_values)
       IN  call' = [fn |-> "max_drawdown", returned |-> TRUE,
                    portfolio_values |-> call.portfolio_values,
                    max_drawdown |-> r.max_drawdown, peaks |-> r.peaks]
    /\ UNCHANGED <<self, pc, runs, data, common_dates, bar, current_prices, signals,
                   risk_signals, k, result, trade_origin, fresh>>

NextDrawdown == ApplyMaxDrawdown

SpecDrawdown == InitDrawdown /\ [][NextDrawdown]_vars

\* ===================================================================
\* Properties
\* ===================================================================
Executing == pc \in {"exec_risk", "exec_signals"}

\* the intent the next ExecRisk / ExecSignal / SignalKeyError step takes up
Pending == IF pc = "exec_risk" THEN risk_signals[k] ELSE signals[k]

PendingPrice == current_prices[Pending.symbol]

\* the step appended a trade record: the order was accepted
AcceptedStep == Len(self'.trade_history) = Len(self.trade_history) + 1

LastTrade == self.trade_history[Len(self.trade_history)]

TradeIndexes == 1..Len(self.trade_history)

\* q * p * (1 + slippage) * (1 + transaction_cost), in units of 1/RateDen^2
BuyTotal(q, p) == q * p * (RateDen + self.slippage) * (RateDen + self.transaction_cost)

\* q * p * (1 - slippage) * (1 - transaction_cost), in units of 1/RateDen^2
SellTotal(q, p) == q * p * (RateDen - self.slippage) * (RateDen - self.transaction_cost)

\* C1 (one step): capital conservation.  A step that accepts a BUY of quantity q at
\* reference price p lowers current_capital by q*p*(1+slippage)*(1+transaction_cost),
\* a step that accepts a SELL raises it by q*p*(1-slippage)*(1-transaction_cost),
\* and every other step of a run after its reset leaves current_capital as it is.
C1_Step ==
    IF Executing /\ AcceptedStep
    THEN IF Pending.action = "BUY"
         THEN self'.current_capital =
                self.current_capital - BuyTotal(Pending.quantity, PendingPrice)
         ELSE self'.current_capital =
                self.current_capital + SellTotal(Pending.quantity, PendingPrice)
    ELSE pc \in {"bar", "risk", "exec_risk", "exec_signals", "snapshot", "finish"}
            => self'.current_capital = self.current_capital

\* C1: every step of a run changes current_capital by exactly the total of
\* the trade it accepts, and not at all when it accepts none.
C1_CapitalConservation == [][C1_Step]_vars

\* C1 witness: with slippage and fees charged, a run has accepted a BUY and
\* then a SELL of positive quantity.
C1_Witness ==
    /\ self.slippage > 0 /\ self.transaction_cost > 0
    /\ \E i, j \in TradeIndexes :
        /\ i < j
        /\ self.trade_history[i].action = "BUY" /\ self.trade_history[i].quantity > 0
        /\ self.trade_history[j].action = "SELL" /\ self.trade_history[j].quantity > 0

\* C2: in every snapshot appended by run_backtest every instrument's
\* position count is >= 0, whatever intents the strategy returned.
C2_NoNegativePositions ==
    \A n \in 1..Len(self.portfolio_values) :
        \A s \in DOMAIN self.portfolio_values[n].positions :
            self.portfolio_values[n].positions[s] >= 0

\* C3: with stop_loss = 0 and take_profit = 0 check_risk_management emits no
\* intent, whatever the positions and the prices.
C3_ZeroDisablesRisk ==
    (self.stop_loss = 0 /\ self.take_profit = 0) => risk_signals = <<>>

\* C4 (one step): a step that takes up a BUY whose total cost
\* quantity * execution_price * (1 + transaction_cost) exceeds current_capital
\* appends no trade record and leaves current_capital as it is.
C4_Step ==
    (/\ Executing
     /\ Pending.action = "BUY"
     /\ BuyTotal(Pending.quantity, PendingPrice) > self.current_capital)
    => /\ self'.trade_history = self.trade_history
       /\ self'.current_capital = self.current_capital

\* C4: no step executes a BUY whose total cost exceeds the available cash.
C4_NoOverspend == [][C4_Step]_vars

\* C4 witness: capital 1000, no slippage, no fee, a BUY of 10 at 120 (cost
\* 1200) has been taken up: the trade log is empty and cash is still 1000.
C4_Witness ==
    /\ pc = "snapshot"
    /\ self.slippage = 0 /\ self.transaction_cost = 0
    /\ Len(signals) = 1
    /\ signals[1].action = "BUY" /\ signals[1].quantity = 10 /\ signals[1].keys
    /\ current_prices[signals[1].symbol] = 120
    /\ self.trade_history = <<>>
    /\ self.current_capital = 1000 * Money

\* C5 (one step): a step that takes up a SELL whose quantity is greater than the
\* instrument's position appends no trade record and leaves the position
\* as it is.
C5_Step ==
    (/\ Executing
     /\ Pending.action = "SELL"
     /\ Pending.quantity > self.positions[Pending.symbol])
    => /\ self'.trade_history = self.trade_history
       /\ self'.positions = self.positions

\* C5: no step executes a SELL of more than the instrument's position.
C5_NoOversell == [][C5_Step]_vars

\* C5 witness: an instrument is held (5 bought on an earlier bar), a SELL of
\* 10 of it has been taken up, and the log still holds only the BUY.
C5_Witness ==
    /\ pc = "snapshot"
    /\ Len(signals) = 1
    /\ signals[1].keys /\ signals[1].action = "SELL" /\ signals[1].quantity = 10
    /\ self.positions[signals[1].symbol] = 5
    /\ Len(self.trade_history) = 1
    /\ LastTrade.action = "BUY"

\* C6: an intent with a non-positive quantity is never executed as a trade
\* (the run fails instead): no trade record has a quantity <= 0.
C6_MalformedNeverExecuted ==
    \A i \in TradeIndexes : self.trade_history[i].quantity > 0

\* C7: when the aligned date universe is empty run_backtest returns a result
\* (it does not raise) with no snapshots and no trades.
C7_EmptyUniverseReturns ==
    (pc \in {"done", "failed"} /\ common_dates = <<>>)
    => /\ result.status = "returned"
       /\ self.portfolio_values = <<>>
       /\ self.trade_history = <<>>

\* C8: within one bar every risk-management intent is executed before any
\* strategy intent: once the bar's risk loop is over, the bar's trade
\* records begin with one SELL per risk-management intent, in order and of
\* the intent's (full-position) quantity, and only strategy trades follow.
TodaysTrades == {i \in TradeIndexes : self.trade_history[i].date = CurrentDate}

FirstToday == Len(self.trade_history) - Cardinality(TodaysTrades)

C8_RiskBeforeStrategy ==
    pc \in {"exec_signals", "snapshot"} =>
        /\ Cardinality(TodaysTrades) >= Len(risk_signals)
        /\ \A i \in TodaysTrades :
            LET n == i - FirstToday
            IN  IF n <= Len(risk_signals)
                THEN /\ trade_origin[i] = "risk"
                     /\ self.trade_history[i].action = "SELL"
                     /\ self.trade_history[i].symbol = risk_signals[n].symbol
                     /\ self.trade_history[i].quantity = risk_signals[n].quantity
                ELSE trade_origin[i] = "strategy"

\* C8 witness: entered at 100 (no slippage) with stop_loss 0.05, the next
\* bar's price is 94: that bar's log has the stop-loss SELL of the whole
\* position, then the strategy's BUY of the same instrument.
C8_Witness ==
    /\ pc = "snapshot"
    /\ self.stop_loss = 5 /\ self.slippage = 0
    /\ Len(self.trade_history) = 3
    /\ LET t == self.trade_history
       IN  /\ t[1].action = "BUY" /\ t[1].price = 100 * RateDen /\ t[1].date = 1
           /\ t[2].action = "SELL" /\ t[2].symbol = t[1].symbol /\ t[2].date = 2
           /\ t[2].quantity = t[1].quantity /\ t[2].price = 94 * RateDen
           /\ trade_origin[2] = "risk"
           /\ t[3].action = "BUY" /\ t[3].symbol = t[1].symbol /\ t[3].date = 2
           /\ trade_origin[3] = "strategy"
    /\ risk_signals[1].reason = "stop-loss"

\* C9 (one step): the entry price of an instrument is set exactly when a BUY takes its
\* position from 0 to positive: a step gives an instrument a new entry price
\* only if it is such a BUY, and such a BUY records its execution price.
EntryOf(e, s) ==
    IF s \in DOMAIN e.position_entry_prices
    THEN <<e.position_entry_prices[s]>> ELSE <<>>

OpensPosition(s) ==
    /\ Executing /\ AcceptedStep
    /\ Pending.action = "BUY" /\ Pending.symbol = s
    /\ self.positions[s] = 0 /\ self'.positions[s] > 0

C9_Step ==
    \A s \in SymbolSet :
        /\ EntryOf(self', s) # EntryOf(self, s) => OpensPosition(s)
        /\ OpensPosition(s) =>
            EntryOf(self', s) = <<PendingPrice * (RateDen + self.slippage)>>

\* C9: in every step, an entry price is set exactly by a BUY that takes the
\* position from 0 to positive, and is unchanged otherwise.
C9_EntryPriceSetOnOpen == [][C9_Step]_vars

\* C10: a run on an engine that has completed earlier runs produces the
\* same trade log and snapshot sequence as the same run on a newly
\* constructed engine with the same configuration and data.
C10_RerunAsFresh ==
    pc \in {"done", "failed"} =>
        /\ self.trade_history = fresh.trade_history
        /\ self.portfolio_values = fresh.portfolio_values

\* ---- C12
\* the dates run_backtest has simulated so far: one snapshot per simulated date
SimulatedDates ==
    {self.portfolio_values[n].date : n \in 1..Len(self.portfolio_values)}

\* the dates every requested instrument has
DatesOfAll == {t \in Dates : \A s \in SymbolSet : t \in DOMAIN data[s]}

\* C12: run_backtest simulates exactly the intersection of the instruments'
\* date indexes: a date some instrument lacks is never simulated, and when the
\* run has returned every date that all instruments have has been simulated.
C12_DateAlignment ==
    /\ SimulatedDates \subseteq DatesOfAll
    /\ pc = "done" => SimulatedDates = DatesOfAll

\* a returned run over data where one instrument lacks a date another has
C12_Witness ==
    /\ pc = "done"
    /\ SimulatedDates # {}
    /\ \E s, u \in SymbolSet : DOMAIN data[s] \ DOMAIN data[u] # {}

\* ---- C13
SellIndexes == {i \in TradeIndexes : self.trade_history[i].action = "SELL"}

\* C13: every SELL record of the trade log carries the realized P&L of the
\* sale: its net proceeds less entry price times quantity.
C13_SellRecordsPnl ==
    \A i \in SellIndexes :
        LET t == self.trade_history[i]
        IN  /\ "pnl" \in DOMAIN t
            /\ t.symbol \in DOMAIN self.position_entry_prices
            /\ t.pnl = t.revenue
                        - self.position_entry_prices[t.symbol] * t.quantity * RateDen

\* ---- C14
\* C14: a returned run reports an aggregate realized P&L, and it is the sum of
\* the realized P&L of the SELL records of the trade log.
C14_RealizedPnlIdentity ==
    pc = "done" =>
        /\ "realized_pnl" \in DOMAIN result
        /\ \A i \in SellIndexes : "pnl" \in DOMAIN self.trade_history[i]
        /\ result.realized_pnl = SumOver(SellIndexes, [i \in SellIndexes |-> self.trade_history[i].pnl])

\* ---- C17
\* the step hands the pending order to execute_trade
ReachesExecuteTrade == Executing /\ (pc = "exec_signals" => signals[k].keys)

\* the order execute_trade is handed is infeasible
Infeasible ==
    \/ Pending.action = "BUY"
       /\ BuyTotal(Pending.quantity, PendingPrice) > self.current_capital
    \/ Pending.action = "SELL"
       /\ Pending.quantity > self.positions[Pending.symbol]

\* C17 (one step): a step that hands execute_trade a BUY the cash does not
\* cover, or a SELL of more than the position, leaves the whole engine (cash,
\* every position, every entry price, the trade log, the snapshots) as it
\* was, and the run does not fail on it.
C17_Step ==
    (ReachesExecuteTrade /\ Infeasible)
    => /\ self' = self
       /\ pc' # "failed"
       /\ result' = result

\* C17: a rejected order changes nothing and raises nothing.
C17_RejectionChangesNothing == [][C17_Step]_vars

\* C17 witness: on the second bar, with a position open and its entry price
\* recorded, a BUY the cash does not cover has been taken up.
C17_Witness ==
    /\ pc = "snapshot"
    /\ bar = 2
    /\ Len(signals) = 1
    /\ signals[1].keys /\ signals[1].action = "BUY"
    /\ BuyTotal(signals[1].quantity, current_prices[signals[1].symbol])
           > self.current_capital
    /\ DOMAIN self.position_entry_prices # {}
    /\ Len(self.trade_history) = 1
    /\ self.positions[LastTrade.symbol] > 0

\* ---- C18
\* C18 (one step): a step that hands execute_trade a feasible order appends
\* exactly one record, that order's; a step that hands it an infeasible order
\* and every other step of a run after its reset append none; and the step
\* that builds the result reports the length of the trade log as total_trades.
C18_Step ==
    /\ (ReachesExecuteTrade /\ ~Infeasible)
       => /\ Len(self'.trade_history) = Len(self.trade_history) + 1
          /\ SubSeq(self'.trade_history, 1, Len(self.trade_history)) = self.trade_history
          /\ LET t == self'.trade_history[Len(self'.trade_history)]
             IN  /\ t.symbol = Pending.symbol
                 /\ t.action = Pending.action
                 /\ t.quantity = Pending.quantity
          /\ Len(trade_origin') = Len(self'.trade_history)
    /\ (ReachesExecuteTrade /\ Infeasible)
       => self'.trade_history = self.trade_history
    /\ (~ReachesExecuteTrade /\ pc \notin {"idle", "done", "failed"})
       => self'.trade_history = self.trade_history
    /\ (pc = "finish" /\ pc' = "done")
       => result'.total_trades = Len(self.trade_history)

\* C18: one record per accepted order, none per rejected order, and
\* total_trades counts the accepted orders of the run.
C18_OneRecordPerAcceptedOrder == [][C18_Step]_vars

\* C18 witness: a returned run of two trades, a strategy BUY and a
\* risk-management SELL, whose last strategy order was rejected.
C18_Witness ==
    /\ pc = "done"
    /\ result.total_trades = 2
    /\ trade_origin = <<"strategy", "risk">>
    /\ Len(signals) = 1
    /\ signals[1].keys /\ signals[1].action = "SELL" /\ signals[1].quantity > 0

\* ---- C16
\* the highest of the first n snapshot values
RunningPeak(v, n) == CHOOSE x \in {v[i] : i \in 1..n} : \A i \in 1..n : v[i] <= x

\* C16: the peak the drawdown loop uses at each snapshot is the highest
\* snapshot value up to and including it, it never decreases along the
\* sequence, and the reported max_drawdown is the greatest over the snapshots
\* of (running peak - value) / running peak * 100.
C16_MaxDrawdown ==
    (call.fn = "max_drawdown" /\ call.returned) =>
        LET v  == call.portfolio_values
            N  == Len(v)
            dd == call.max_drawdown
        IN  /\ Len(call.peaks) = N
            /\ \A n \in 1..N : call.peaks[n] = RunningPeak(v, n)
            /\ \A n \in 1..(N - 1) : call.peaks[n] <= call.peaks[n + 1]
            /\ \E n \in 1..N :
                  dd.num * RunningPeak(v, n) = (RunningPeak(v, n) - v[n]) * 100 * dd.den
            /\ \A n \in 1..N :
                  dd.num * RunningPeak(v, n) >= (RunningPeak(v, n) - v[n]) * 100 * dd.den

\* C16 witness: the values rise to a new peak and then fall below it, and a
\* drawdown from the new peak is what is reported.
C16_Witness ==
    /\ call.fn = "max_drawdown" /\ call.returned
    /\ Len(call.portfolio_values) >= 3
    /\ call.portfolio_values[1] < call.portfolio_values[2]
    /\ call.portfolio_values[3] < call.portfolio_values[2]
    /\ call.max_drawdown.num > 0
    /\ call.max_drawdown.den = call.portfolio_values[2]

\* ---- C15
\* every intent any sub-strategy emitted, in the order of emission
Emitted ==
    call.mean_rev_signals \o call.momentum_signals \o call.pairs_signals
        \o call.trend_signals

PairOf(signal) == <<signal.symbol, signal.action>>

\* C15: combined_strategy returns exactly one intent for every (instrument,
\* side) pair some sub-strategy emitted and none for any other pair, and the
\* intent is an emitted one of that pair that no intent of the pair exceeds in
\* quantity and no earlier intent of the pair equals in quantity.
C15_CombinedDedup ==
    (call.fn = "combined_strategy" /\ call.returned) =>
        LET out == call.signals
        IN  /\ \A i \in 1..Len(Emitted) :
                  Cardinality({n \in 1..Len(out) : PairOf(out[n]) = PairOf(Emitted[i])}) = 1
            /\ \A n \in 1..Len(out) :
                  \E i \in 1..Len(Emitted) :
                      /\ Emitted[i] = out[n]
                      /\ \A j \in 1..Len(Emitted) :
                            PairOf(Emitted[j]) = PairOf(out[n])
                            => /\ Emitted[j].quantity <= out[n].quantity
                               /\ (j < i => Emitted[j].quantity < out[n].quantity)

\* C15 witness: two sub-strategies emit a BUY of one instrument, of 50 and of
\* 80, and the output is the single BUY of 80.
C15_Witness ==
    /\ call.fn = "combined_strategy" /\ call.returned
    /\ Len(call.mean_rev_signals) = 1 /\ Len(call.momentum_signals) = 1
    /\ call.pairs_signals = <<>> /\ call.trend_signals = <<>>
    /\ call.mean_rev_signals[1].action = "BUY" /\ call.mean_rev_signals[1].quantity = 50
    /\ call.momentum_signals[1].action = "BUY" /\ call.momentum_signals[1].quantity = 80
    /\ call.mean_rev_signals[1].symbol = call.momentum_signals[1].symbol
    /\ call.signals = call.momentum_signals

\* ---- C19
\* the two histories are the same up to and including bar i
AgreeUpTo(i) == \A j \in 1..i : call.df[j] = call.twin_df[j]

\* C19: the indicator values at a bar depend only on the bars up to and
\* including it: two histories that agree up to bar i get the same indicator
\* row at bar i.
C19_NoLookAhead ==
    (call.fn = "calculate_technical_indicators" /\ call.returned) =>
        \A i \in 1..MaxBars :
            AgreeUpTo(i) => call.indicators[i] = call.twin_indicators[i]

\* ---- C20
\* C20: the intents the strategy emits at bar t in run_backtest depend only on
\* the bars up to and including t: two histories that agree up to bar t yield
\* the same intents at bar t.
C20_IntentsSeeNoFuture ==
    (call.fn = "strategy_at_bar" /\ call.returned) =>
        (AgreeUpTo(call.t) => call.signals = call.twin_signals)

\* ---- C21
\* what the risk check of the bar emitted for symbol s
EmittedFor(sigs, s) == SelectSeq(sigs, LAMBDA sig : sig.symbol = s)

FullSell(s, reason) ==
    <<[symbol |-> s, action |-> "SELL", quantity |-> self.positions[s],
       reason |-> reason]>>

\* (price - entry) / entry <= -stop_loss, with price a whole number, entry in
\* units of 1/RateDen and stop_loss in units of 1/RateDen
ReturnAtMostMinusStopLoss(s) ==
    current_prices[s] * Money <= (RateDen - self.stop_loss) * self.position_entry_prices[s]

\* (price - entry) / entry >= take_profit
ReturnAtLeastTakeProfit(s) ==
    current_prices[s] * Money >= (RateDen + self.take_profit) * self.position_entry_prices[s]

\* C21 (one step): the step that runs the bar's risk checks emits, for an
\* instrument held with a recorded entry price, one stop-loss SELL of the
\* whole position when the return is at most -stop_loss, otherwise one
\* take-profit SELL of the whole position when the return is at least
\* take_profit, otherwise nothing; for an instrument with position 0 nothing.
C21_Step ==
    pc = "risk" =>
        \A s \in SymbolSet :
            LET emitted == EmittedFor(risk_signals', s)
            IN  IF self.positions[s] > 0 /\ s \in DOMAIN self.position_entry_prices
                THEN IF ReturnAtMostMinusStopLoss(s) THEN emitted = FullSell(s, "stop-loss")
                     ELSE IF ReturnAtLeastTakeProfit(s) THEN emitted = FullSell(s, "take-profit")
                     ELSE emitted = <<>>
                ELSE self.positions[s] = 0 => emitted = <<>>

StrategyCalled == pc = "bar" /\ pc' # "bar"

\* the risk checks of the bar (lines 204-207) have not run yet
RiskCheckAhead == pc = "risk"

\* C22 (one step): when the strategy function is called for a bar, the bar's
\* risk checks have already been evaluated.
C22_Step == StrategyCalled => ~RiskCheckAhead'

\* C22: on each bar the risk manager is evaluated before the strategy
\* function is called.
C22_RiskCheckBeforeStrategyCall == [][C22_Step]_vars

\* ---- C23
SnapshotAppended == Len(self'.portfolio_values) = Len(self.portfolio_values) + 1

InRun == pc \notin {"idle", "done", "failed"}

\* C23 (one step): a snapshot is appended only when the bar's executions are
\* over, for the bar's date, which has no snapshot yet; the strategy is called
\* for a date that has no snapshot yet, and the run comes back to the top of
\* the loop only by appending a snapshot, so each aligned date gets one call
\* and one snapshot; a trade record carries the date of the bar it is
\* executed on, before that bar's snapshot; snapshot dates are strictly
\* ascending and trade dates never decrease; a returned run has one snapshot
\* for each aligned date.
C23_Step ==
    /\ SnapshotAppended
       => /\ pc = "snapshot"
          /\ CurrentDate \notin SimulatedDates
          /\ self'.portfolio_values[Len(self'.portfolio_values)].date = CurrentDate
          /\ SubSeq(self'.portfolio_values, 1, Len(self.portfolio_values))
                = self.portfolio_values
    /\ (InRun /\ ~SnapshotAppended) => self'.portfolio_values = self.portfolio_values
    /\ StrategyCalled
       => /\ CurrentDate \notin SimulatedDates
          /\ Len(self.portfolio_values) = bar - 1
    /\ (InRun /\ pc # "bar" /\ pc' = "bar") => SnapshotAppended
    /\ (InRun /\ AcceptedStep)
       => /\ self'.trade_history[Len(self'.trade_history)].date = CurrentDate
          /\ CurrentDate \notin SimulatedDates
    /\ \A i, j \in 1..Len(self'.portfolio_values) :
          i < j => self'.portfolio_values[i].date < self'.portfolio_values[j].date
    /\ \A i, j \in 1..Len(self'.trade_history) :
          i < j => self'.trade_history[i].date <= self'.trade_history[j].date
    /\ pc' = "done"
       => {self'.portfolio_values[n].date : n \in 1..Len(self'.portfolio_values)}
             = {t \in Dates : \A sym \in SymbolSet : t \in DOMAIN data'[sym]}

\* C23: one snapshot and one strategy call per aligned date, snapshots in
\* strictly ascending date order after the date's executions, trade dates
\* the dates of their bars and non-decreasing.
C23_OneSnapshotPerDate == [][C23_Step]_vars

\* C23 witness: a returned run of two bars with a trade on each.
C23_Witness ==
    /\ pc = "done"
    /\ Len(self.portfolio_values) = 2
    /\ Len(self.trade_history) = 2
    /\ self.trade_history[1].date = self.portfolio_values[1].date
    /\ self.trade_history[2].date = self.portfolio_values[2].date

\* ---- C24
\* cash + sum over the instruments of position * close of the snapshot's date
MarkToMarket(snapshot) ==
    snapshot.cash
    + SumOver(SymbolSet, [s \in SymbolSet |->
                  snapshot.positions[s] * data[s][snapshot.date] * Money])

\* C24 (one step): the snapshot a step appends holds the cash and the
\* positions the bar's executions left, and every snapshot's portfolio_value
\* is its cash plus the sum of its positions at the close of its date.
C24_Step ==
    InRun =>
        /\ SnapshotAppended
           => LET snapshot == self'.portfolio_values[Len(self'.portfolio_values)]
              IN  /\ snapshot.cash = self.current_capital
                  /\ snapshot.positions = self.positions
                  /\ self'.current_capital = self.current_capital
                  /\ self'.positions = self.positions
        /\ \A n \in 1..Len(self'.portfolio_values) :
              self'.portfolio_values[n].portfolio_value
                 = MarkToMarket(self'.portfolio_values[n])

\* C24: every snapshot's portfolio_value is cash plus positions at that
\* bar's close, taken after the bar's executions.
C24_SnapshotValue == [][C24_Step]_vars

\* C24 witness: the second snapshot holds a position bought on the first
\* bar, marked at a close that differs from the first bar's.
C24_Witness ==
    /\ Len(self.portfolio_values) = 2
    /\ \E s \in SymbolSet :
          /\ self.portfolio_values[2].positions[s] > 0
          /\ self.portfolio_values[1].positions[s] > 0
          /\ data[s][self.portfolio_values[1].date] # data[s][self.portfolio_values[2].date]

\* ---- C27
\* C27: with positive intent quantities the cash is never negative, and no
\* snapshot's cash or portfolio_value is.
C27_CashNeverNegative ==
    /\ self.current_capital >= 0
    /\ \A n \in 1..Len(self.portfolio_values) :
          /\ self.portfolio_values[n].cash >= 0
          /\ self.portfolio_values[n].portfolio_value >= 0

\* C27 witness: a BUY that costs exactly the whole cash has been accepted,
\* and the snapshot after it shows cash 0.
C27_Witness ==
    /\ Len(self.trade_history) = 1
    /\ LastTrade.action = "BUY"
    /\ self.current_capital = 0
    /\ Len(self.portfolio_values) = 1
    /\ self.portfolio_values[1].cash = 0

\* ---- C28
\* the bar's risk check emitted an intent for symbol s
Triggered(s) == \E n \in 1..Len(risk_signals) : risk_signals[n].symbol = s

\* a strategy BUY of symbol s was accepted earlier on this bar
ReopenedToday(s) ==
    \E i \in TodaysTrades :
        /\ trade_origin[i] = "strategy"
        /\ self.trade_history[i].symbol = s
        /\ self.trade_history[i].action = "BUY"

\* C28 (one step): a step that executes a risk-management intent is accepted
\* and leaves the instrument's position at 0; a step that hands execute_trade
\* a strategy SELL of an instrument the bar's risk check triggered appends no
\* record, unless a strategy BUY of the instrument was accepted before it on
\* the bar.
C28_Step ==
    /\ pc = "exec_risk"
       => /\ AcceptedStep
          /\ self'.positions[Pending.symbol] = 0
    /\ (/\ pc = "exec_signals"
        /\ signals[k].keys
        /\ signals[k].action = "SELL"
        /\ Triggered(signals[k].symbol)
        /\ ~ReopenedToday(signals[k].symbol))
       => self'.trade_history = self.trade_history

\* C28: a risk-management SELL is never rejected and flattens the position,
\* and a same-bar strategy SELL of that instrument is then rejected.
C28_RiskSellNeverRejected == [][C28_Step]_vars

\* ---- C29
\* cash and positions the bar started with: the last snapshot's, or the reset's
BarStart ==
    IF self.portfolio_values = <<>>
    THEN [cash |-> self.initial_capital, positions |-> [s \in SymbolSet |-> 0]]
    ELSE [cash |-> self.portfolio_values[Len(self.portfolio_values)].cash,
          positions |-> self.portfolio_values[Len(self.portfolio_values)].positions]

\* the bar's orders in the order of their execution
BarOrders ==
    [n \in 1..(Len(risk_signals) + Len(signals)) |->
        IF n <= Len(risk_signals) THEN risk_signals[n]
        ELSE signals[n - Len(risk_signals)]]

\* cash and positions after the first n orders of the bar, each taken one at
\* a time against what the orders before it left
RECURSIVE Replayed(_)
Replayed(n) ==
    IF n = 0 THEN BarStart
    ELSE LET before == Replayed(n - 1)
             order  == BarOrders[n]
             price  == current_prices[order.symbol]
         IN  IF /\ order.action = "BUY"
                /\ BuyTotal(order.quantity, price) <= before.cash
             THEN [cash |-> before.cash - BuyTotal(order.quantity, price),
                   positions |-> [before.positions EXCEPT
                                     ![order.symbol] = @ + order.quantity]]
             ELSE IF /\ order.action = "SELL"
                     /\ order.quantity <= before.positions[order.symbol]
             THEN [cash |-> before.cash + SellTotal(order.quantity, price),
                   positions |-> [before.positions EXCEPT
                                     ![order.symbol] = @ - order.quantity]]
             ELSE before

\* C29 (one step): the step for the k-th strategy intent of a bar starts from
\* the cash and positions that the bar's earlier orders, taken one at a time
\* in order, left, and ends in what taking the k-th after them leaves; an
\* appended record is the k-th intent's, and the next step is for intent k+1.
C29_Step ==
    pc = "exec_signals" =>
        LET n == Len(risk_signals) + k
        IN  /\ self.current_capital = Replayed(n - 1).cash
            /\ self.positions = Replayed(n - 1).positions
            /\ self'.current_capital = Replayed(n).cash
            /\ self'.positions = Replayed(n).positions
            /\ AcceptedStep
               => LET t == self'.trade_history[Len(self'.trade_history)]
                  IN  /\ t.symbol = signals[k].symbol
                      /\ t.action = signals[k].action
                      /\ t.quantity = signals[k].quantity
            /\ IF k < Len(signals) THEN pc' = pc /\ k' = k + 1 ELSE pc' = "snapshot"

\* C29: the intents of a bar are executed one at a time in the returned
\* order, each against the cash and positions the earlier ones left.
C29_IntentsInOrder == [][C29_Step]_vars

\* C29 witness: on the second bar a SELL and then a BUY have both been
\* accepted, and the BUY cost more than the cash the bar started with.
C29_Witness ==
    /\ pc = "snapshot"
    /\ bar = 2
    /\ risk_signals = <<>>
    /\ Len(signals) = 2
    /\ signals[1].action = "SELL" /\ signals[2].action = "BUY"
    /\ Cardinality(TodaysTrades) = 2
    /\ LastTrade.action = "BUY"
    /\ LastTrade.cost > BarStart.cash

\* ---- C30
\* cash + sum over the instruments of position * price, at the given prices
ValueAt(e, prices) ==
    e.current_capital
    + SumOver(SymbolSet, [s \in SymbolSet |-> e.positions[s] * prices[s] * Money])

\* the Close of every instrument is the same on every date of the run
PricesNeverChange ==
    \A s \in SymbolSet : \A t, u \in DOMAIN data[s] : data[s][t] = data[s][u]

\* C30 (one step): a step that accepts an order of positive quantity q at
\* reference price p lowers cash + positions at the bar's prices by exactly
\* what slippage and fee take: q*p*((1+slippage)*(1+transaction_cost) - 1)
\* for a BUY, q*p*(1 - (1-slippage)*(1-transaction_cost)) for a SELL; and in a
\* run whose prices never change no snapshot value exceeds the one before it
\* or the initial capital.
C30_Step ==
    /\ (Executing /\ AcceptedStep /\ Pending.quantity > 0)
       => LET q == Pending.quantity
              p == PendingPrice
              paid == IF Pending.action = "BUY"
                      THEN BuyTotal(q, p) - q * p * Money
                      ELSE q * p * Money - SellTotal(q, p)
          IN  /\ paid >= 0
              /\ ValueAt(self', current_prices) = ValueAt(self, current_prices) - paid
    /\ PricesNeverChange'
       => \A n \in 1..Len(self'.portfolio_values) :
             /\ self'.portfolio_values[n].portfolio_value <= self'.initial_capital
             /\ n > 1 => self'.portfolio_values[n].portfolio_value
                            <= self'.portfolio_values[n - 1].portfolio_value

\* C30: an accepted trade lowers the value at its own reference price by the
\* costs paid, so with unchanging prices the snapshot values never rise.
C30_TradesNeverRaiseValue == [][C30_Step]_vars

\* C30 witness: a returned run on unchanging prices with a trade on each bar
\* and costs paid: the second snapshot is worth less than the first, the
\* first less than the initial capital.
C30_Witness ==
    /\ pc = "done"
    /\ PricesNeverChange
    /\ Len(self.portfolio_values) = 2
    /\ Len(self.trade_history) = 2
    /\ self.trade_history[2].action = "SELL"
    /\ self.portfolio_values[2].portfolio_value < self.portfolio_values[1].portfolio_value
    /\ self.portfolio_values[1].portfolio_value < self.initial_capital

\* ---- C25
\* the window below which a strategy must stay silent: the shortest history
\* any of its tests reads
RequiredWindow(name) ==
    CASE name \in {"mean_reversion", "momentum", "pairs_trading"} -> MinRows
      [] name \in {"trend_following", "combined"} -> LongWindow
      [] name = "volatility_breakout" -> AtrPeriod + 1

TooShort(c, symbol) ==
    symbol \notin DOMAIN c.rows \/ c.rows[symbol] < RequiredWindow(c.name)

StrategyReturned == call.fn = "strategy" /\ call.returned

\* C25: a registered strategy called with a history shorter than its required
\* window (an empty or one-bar history included, or a missing instrument for the
\* pairs strategy) returns: it emits no intent for an instrument whose history is
\* too short or missing, the pairs strategy emits nothing when either instrument
\* is, and the list is empty when every instrument is.
C25_ShortHistoryReturnsNothing ==
    StrategyReturned =>
        /\ \A s \in SymbolSet :
              TooShort(call, s) =>
                  \A n \in 1..Len(call.signals) : call.signals[n].symbol # s
        /\ (call.name = "pairs_trading" /\ \E s \in SymbolSet : TooShort(call, s))
              => call.signals = <<>>
        /\ (\A s \in SymbolSet : TooShort(call, s)) => call.signals = <<>>

\* the trend strategy was called with one row less than its long window while
\* both instruments showed a golden cross, and returned nothing
C25_Witness ==
    /\ StrategyReturned
    /\ call.name = "trend_following"
    /\ \A s \in SymbolSet :
          /\ s \in DOMAIN call.rows
          /\ call.rows[s] = LongWindow - 1
          /\ call.verdict[s] = "buy"
    /\ call.signals = <<>>

\* ---- C26
PairsReturned == StrategyReturned /\ call.name = "pairs_trading"

Sides(intents) == {<<intents[n].symbol, intents[n].action>> : n \in 1..Len(intents)}

Numerator == "1579.T"

Denominator == "1360.T"

CorrelationExceeds ==
    /\ \A s \in SymbolSet : ~TooShort(call, s)
    /\ ~call.current_corr.nan
    /\ \/ call.current_corr.num > CorrelationThreshold
       \/ call.current_corr.num < -CorrelationThreshold

ZScoreAbove == ~call.z_score.nan /\ call.z_score.num > ZScoreThreshold

ZScoreBelow == ~call.z_score.nan /\ call.z_score.num < -ZScoreThreshold

\* C26: pairs_trading_strategy returns no intents or exactly two of opposite
\* sides, one per instrument: with the rolling correlation beyond the threshold
\* in absolute value, a ratio z-score above +threshold gives one SELL on the
\* ratio's numerator and one BUY on its denominator, a z-score below -threshold
\* gives the sides swapped, and anything else gives nothing.
C26_PairsIntents ==
    PairsReturned =>
        IF CorrelationExceeds /\ ZScoreAbove
        THEN /\ Len(call.signals) = 2
             /\ Sides(call.signals) = {<<Numerator, "SELL">>, <<Denominator, "BUY">>}
        ELSE IF CorrelationExceeds /\ ZScoreBelow
        THEN /\ Len(call.signals) = 2
             /\ Sides(call.signals) = {<<Numerator, "BUY">>, <<Denominator, "SELL">>}
        ELSE call.signals = <<>>

\* the pair diverged downwards and the strategy bought the numerator and sold
\* the denominator
C26_Witness ==
    /\ PairsReturned
    /\ CorrelationExceeds
    /\ ZScoreBelow
    /\ Sides(call.signals) = {<<Numerator, "BUY">>, <<Denominator, "SELL">>}

====
